---- MODULE Spec2Model ----
(***************************************************************************)
(* uidmapshift: the shifting engine of src/uidmapshift/shifter.py          *)
(* (Shifter.new_uid, new_gid, shift_acl, shift, run) over a small          *)
(* filesystem tree with a directory, regular files, a hard link and a      *)
(* symlink to a directory.  What the method calls into is part of it:      *)
(* fnmatch, the listing order of os.walk, libacl's ordering of ACL         *)
(* entries, and what chown and the ACL write do with the value 2^32 - 1.   *)
(*                                                                         *)
(* Python integers are unbounded and the identifier space ends at 2^32,    *)
(* which TLC's 32-bit integers cannot hold.  Every identifier, offset and  *)
(* sum is therefore kept exactly as a pair <<hi, lo>> standing for         *)
(* hi * 2^16 + lo with 0 <= lo < 2^16 (hi carries the sign).               *)
(***************************************************************************)
EXTENDS Integers, Sequences, FiniteSets, TLC

VARIABLES
    shifter,      \* the Shifter instance: offsets, exclusion ranges, patterns
    root_name,    \* the path string run() is called with (names the tree)
    hardlink,     \* whether d/g is a second link to the inode of f
    base_options, \* shift_owner / shift_acl as built once by the caller
    fs,           \* inode -> [kind, uid, gid, acl, default_acl]
    pc,           \* "idle" | "walk" | "done" | "failed"
    options,      \* ShifterOptions of the current run
    stats,        \* ShifterStats of the current run
    stack,        \* os.walk: directories still to list
    yielded,      \* os.walk: the (top, dirs) of the directory last yielded
    queue,        \* paths of the current directory still to shift
    syscalls,     \* filesystem calls issued by the current run, in order
    failure,      \* a failed run: the path its RuntimeError names, the cause
    runs,         \* number of runs started
    prev,         \* the previous run: its options, Shifter, result, start fs
    fs_run,       \* fs when the current run started
    fs_orig,      \* fs at construction
    rin,          \* remapper alone: which of new_uid / new_gid, the id, self
    rout          \* remapper alone: what the call returned or raised

vars == <<shifter, root_name, hardlink, base_options, fs, pc, options, stats,
          stack, yielded, queue, syscalls, failure, runs, prev, fs_run,
          fs_orig, rin, rout>>

(***************************************************************************)
(* Exact integers beyond 32 bits.                                          *)
(***************************************************************************)
LIMB == 2^16

Num(n) == <<n \div LIMB, n % LIMB>>

Plus(a, b) ==
    LET lo == a[2] + b[2]
    IN  <<a[1] + b[1] + (lo \div LIMB), lo % LIMB>>

Negated(a) == IF a[2] = 0 THEN <<-a[1], 0>> ELSE <<-a[1] - 1, LIMB - a[2]>>

Lt(a, b) == a[1] < b[1] \/ (a[1] = b[1] /\ a[2] < b[2])

Le(a, b) == a = b \/ Lt(a, b)

\* MAX_ID = 1 << 32
MAX_ID == <<LIMB, 0>>

\* the sentinel -1 of new_uid / new_gid and of os.chown
MINUS_ONE == Num(-1)

\* 2^32 - 1: the value the kernel reads as (uid_t)-1 / (gid_t)-1, and the
\* ACL_UNDEFINED_ID no named ACL entry may carry
UINT_MINUS_ONE == Plus(MAX_ID, MINUS_ONE)

\* range(start, stop)
range(start, stop) == [start |-> start, stop |-> stop]

\* x in r, for a Python range object r of step 1
in_range(x, r) == Le(r.start, x) /\ Lt(x, r.stop)

\* any(x in r for r in ranges)
any_in(x, ranges) == \E i \in 1..Len(ranges) : in_range(x, ranges[i])

(***************************************************************************)
(* Identifier remapper.  A call either returns a value or raises.          *)
(***************************************************************************)
Returned(v) == [raised |-> FALSE, value |-> v]

ValueError == [raised |-> TRUE, value |-> MINUS_ONE]

\* the remapper with the range check done before the exclusion check
new_uid_range_first(self, uid) ==
    LET new == Plus(uid, self.uid_offset)
    IN  IF ~ in_range(new, range(Num(0), MAX_ID)) THEN ValueError
        ELSE IF any_in(uid, self.exclude_uid_ranges) THEN Returned(MINUS_ONE)
        ELSE Returned(new)

new_uid(self, uid) ==
    IF any_in(uid, self.exclude_uid_ranges) THEN Returned(MINUS_ONE)
    ELSE LET new == Plus(uid, self.uid_offset)
         IN  IF ~ in_range(new, range(Num(0), MAX_ID)) THEN ValueError
             ELSE Returned(new)

new_gid(self, gid) ==
    IF any_in(gid, self.exclude_gid_ranges) THEN Returned(MINUS_ONE)
    ELSE LET new == Plus(gid, self.gid_offset)
         IN  IF ~ in_range(new, range(Num(0), MAX_ID)) THEN ValueError
             ELSE Returned(new)

(***************************************************************************)
(* Path strings and fnmatch.  A path is a sequence of names; str(path)     *)
(* joins the names with "/".  Strings are sequences of characters.         *)
(* fnmatch is fnmatch.translate read as a matcher: "*", "?", "[seq]",      *)
(* "[!seq]" with ranges, everything else literal.                          *)
(***************************************************************************)
Chars(name) ==
    CASE name = "root" -> <<"r", "o", "o", "t">>
      [] OTHER -> <<name>>

RECURSIVE str(_)
str(path) ==
    IF Len(path) = 1 THEN Chars(path[1])
    ELSE str(SubSeq(path, 1, Len(path) - 1)) \o <<"/">> \o Chars(path[Len(path)])

\* the characters of the paths and patterns, in code point order
Alphabet == <<"!", "*", "-", "/", "?", "[", "]", "^",
              "a", "b", "c", "d", "e", "f", "g", "h", "i", "j", "k", "l", "m",
              "n", "o", "p", "q", "r", "s", "t", "u", "v", "w", "x", "y", "z">>

\* ord(c), up to an order-preserving renumbering
ord(c) == CHOOSE i \in 1..Len(Alphabet) : Alphabet[i] = c

\* while j < n and pat[j] != ']': j = j+1
RECURSIVE bracket_scan(_, _)
bracket_scan(pat, j) ==
    IF j <= Len(pat) /\ pat[j] # "]" THEN bracket_scan(pat, j + 1) ELSE j

\* the index of the "]" closing the "[" at pat[1]; Len(pat) + 1 if none.
\* A "!" right after the "[" and a "]" right after that are not the end.
bracket_end(pat) ==
    LET j1 == IF 2 <= Len(pat) /\ pat[2] = "!" THEN 3 ELSE 2
        j2 == IF j1 <= Len(pat) /\ pat[j1] = "]" THEN j1 + 1 ELSE j1
    IN  bracket_scan(pat, j2)

\* pat.find('-', k, j) within stuff: the first index >= k holding "-", or 0
RECURSIVE find_hyphen(_, _)
find_hyphen(stuff, k) ==
    IF k > Len(stuff) THEN 0
    ELSE IF stuff[k] = "-" THEN k
    ELSE find_hyphen(stuff, k + 1)

\* the chunks between the hyphens that spell ranges: a "-" counts from
\* index k on, and the next one from three places after the last
RECURSIVE split_chunks(_, _, _)
split_chunks(stuff, i, k) ==
    LET h == find_hyphen(stuff, k)
    IN  IF h = 0 THEN <<SubSeq(stuff, i, Len(stuff))>>
        ELSE <<SubSeq(stuff, i, h - 1)>> \o split_chunks(stuff, h + 1, h + 3)

\* chunk = pat[i:j]; if chunk: chunks.append(chunk) else: chunks[-1] += '-'
close_chunks(chunks) ==
    LET n == Len(chunks)
    IN  IF n > 1 /\ chunks[n] = <<>>
        THEN [k \in 1..(n - 1) |->
                 IF k = n - 1 THEN Append(chunks[k], "-") ELSE chunks[k]]
        ELSE chunks

\* for k in range(len(chunks)-1, 0, -1): an empty range x-y, x > y, is cut
\* out and its two chunks are joined
RECURSIVE remove_empty_ranges(_, _)
remove_empty_ranges(chunks, k) ==
    IF k < 2 THEN chunks
    ELSE LET left == chunks[k - 1]
             right == chunks[k]
         IN  IF ord(left[Len(left)]) > ord(right[1])
             THEN remove_empty_ranges(
                      SubSeq(chunks, 1, k - 2)
                      \o <<SubSeq(left, 1, Len(left) - 1) \o Tail(right)>>
                      \o SubSeq(chunks, k + 1, Len(chunks)),
                      k - 1)
             ELSE remove_empty_ranges(chunks, k - 1)

\* the chunks of a bracket body; a "-" between two chunks spells the range
\* from the last character of the one to the first of the other
bracket_chunks(stuff) ==
    LET k == IF stuff[1] = "!" THEN 3 ELSE 2
        chunks == close_chunks(split_chunks(stuff, 1, k))
    IN  remove_empty_ranges(chunks, Len(chunks))

\* whether c is in the set the chunks spell: the range ends apart, every
\* character of a chunk is a literal
in_chars(c, chunks) ==
    \E k \in 1..Len(chunks) :
        \/ \E p \in 1..Len(chunks[k]) :
               /\ chunks[k][p] = c
               /\ ~ (p = Len(chunks[k]) /\ k < Len(chunks))
               /\ ~ (p = 1 /\ k > 1)
        \/ /\ k < Len(chunks)
           /\ ord(chunks[k][Len(chunks[k])]) <= ord(c)
           /\ ord(c) <= ord(chunks[k + 1][1])

\* [stuff] matches c.  After the empty ranges are gone: nothing left never
\* matches; a leading "!" negates; "!" alone in the first chunk leaves the
\* "-" after it a literal
in_bracket(c, stuff) ==
    LET chunks == bracket_chunks(stuff)
        first == chunks[1]
    IN  IF first # <<>> /\ first[1] = "!"
        THEN IF Len(first) = 1 /\ Len(chunks) > 1
             THEN ~ in_chars(c, <<<<"-">> \o chunks[2]>>
                                \o SubSeq(chunks, 3, Len(chunks)))
             ELSE ~ in_chars(c, <<Tail(first)>>
                                \o SubSeq(chunks, 2, Len(chunks)))
        ELSE in_chars(c, chunks)

RECURSIVE fnmatch(_, _)
fnmatch(name, pat) ==
    IF pat = <<>> THEN name = <<>>
    ELSE IF Head(pat) = "*"
         THEN fnmatch(name, Tail(pat))
              \/ (name # <<>> /\ fnmatch(Tail(name), pat))
    ELSE IF Head(pat) = "?"
         THEN name # <<>> /\ fnmatch(Tail(name), Tail(pat))
    ELSE IF Head(pat) = "[" /\ bracket_end(pat) <= Len(pat)
         THEN LET j == bracket_end(pat)
              IN  /\ name # <<>>
                  /\ in_bracket(Head(name), SubSeq(pat, 2, j - 1))
                  /\ fnmatch(Tail(name), SubSeq(pat, j + 1, Len(pat)))
    ELSE name # <<>> /\ Head(name) = Head(pat)
         /\ fnmatch(Tail(name), Tail(pat))

\* any(fnmatch.fnmatch(str(path), pat) for pat in self.exclude_paths)
path_excluded(self, path) ==
    \E i \in 1..Len(self.exclude_paths) :
        fnmatch(str(path), self.exclude_paths[i])

(***************************************************************************)
(* The filesystem.  The tree named by root_name:                           *)
(*     d/        directory (inode 1)                                       *)
(*     d/g       regular file (inode 3), or a second link to inode 2       *)
(*     l -> d    symlink to the directory d (inode 4)                      *)
(*     f         regular file (inode 2)                                    *)
(* Inode 0 is the root directory itself.  An ACL is the sequence of its    *)
(* entries in the order libacl keeps them: by tag, then by qualifier.      *)
(***************************************************************************)
Inodes == 0..4

\* the entries strictly below the root, as paths relative to it
Entries == {<<"d">>, <<"l">>, <<"f">>, <<"d", "g">>}

\* lstat: the inode a path names, the final component not followed
Inode(path) ==
    LET rel == Tail(path)
    IN  CASE rel = <<>> -> 0
          [] rel = <<"d">> -> 1
          [] rel = <<"f">> -> 2
          [] rel = <<"d", "g">> -> IF hardlink THEN 2 ELSE 3
          [] rel = <<"l">> -> 4

\* the inode a path names with a final symlink followed (l -> d)
Followed(disk, path) ==
    IF disk[Inode(path)].kind = "symlink" THEN 1 ELSE Inode(path)

\* the names in a directory
names_in(path) ==
    LET rel == Tail(path)
    IN  CASE rel = <<>> -> {"d", "l", "f"}
          [] rel = <<"d">> -> {"g"}
          [] OTHER -> {}

\* os.scandir(dir): the listings it may yield; the order of the names in a
\* listing is not specified, every order is a possible one
scandir(path) ==
    LET names == names_in(path)
    IN  {s \in [1..Cardinality(names) -> names] :
            \A n \in names : \E i \in 1..Cardinality(names) : s[i] = n}

\* the inodes reachable below the root
Objects == {Inode(<<root_name>> \o e) : e \in Entries}

Entry(tag, qualifier, permset) ==
    [tag_type |-> tag, qualifier |-> qualifier, permset |-> permset]

\* entries without a qualifier carry ACL_UNDEFINED_ID
UserObj == Entry("ACL_USER_OBJ", MINUS_ONE, "rwx")
GroupObj == Entry("ACL_GROUP_OBJ", MINUS_ONE, "r-x")
Mask == Entry("ACL_MASK", MINUS_ONE, "rwx")
Other == Entry("ACL_OTHER", MINUS_ONE, "r--")
MinimalAcl == <<UserObj, GroupObj, Other>>

File(kind, uid, gid, acl, default_acl) ==
    [kind |-> kind, uid |-> uid, gid |-> gid, acl |-> acl,
     default_acl |-> default_acl]

BigId == Plus(MAX_ID, Num(-67296))    \* 4294900000

EdgeId == Plus(UINT_MINUS_ONE, Num(-100000))    \* 4294867295

Profiles == {"plain", "bigowner", "bigacl", "twousers", "edge"}

InitialFs(profile) ==
    [i \in Inodes |->
        CASE i = 0 -> File("dir", Num(0), Num(0), MinimalAcl, <<>>)
          [] i = 1 -> File("dir", Num(1000), Num(1000),
                           <<UserObj, Entry("ACL_USER", Num(1000), "rwx"),
                             GroupObj, Mask, Other>>,
                           <<UserObj, GroupObj,
                             Entry("ACL_GROUP", Num(1000), "rwx"), Mask, Other>>)
          [] i = 2 -> File("file",
                           IF profile = "bigowner" THEN BigId ELSE Num(1000),
                           Num(1000),
                           IF profile = "twousers"
                           THEN <<UserObj,
                                  Entry("ACL_USER", Num(100000), "r--"),
                                  Entry("ACL_USER", Num(150000), "rw-"),
                                  GroupObj, Entry("ACL_GROUP", Num(1000), "r--"),
                                  Mask, Other>>
                           ELSE IF profile = "edge"
                           THEN <<UserObj, Entry("ACL_USER", Num(500), "r--"),
                                  GroupObj, Entry("ACL_GROUP", EdgeId, "r--"),
                                  Entry("ACL_GROUP", BigId, "rw-"),
                                  Mask, Other>>
                           ELSE <<UserObj,
                                  Entry("ACL_USER",
                                        IF profile = "bigacl" THEN BigId
                                        ELSE Num(500),
                                        "r--"),
                                  GroupObj, Entry("ACL_GROUP", Num(1000), "r--"),
                                  Mask, Other>>,
                           <<>>)
          [] i = 3 -> IF profile = "edge"
                      THEN File("file", EdgeId, Num(1000),
                                <<UserObj, GroupObj,
                                  Entry("ACL_GROUP", EdgeId, "r--"),
                                  Mask, Other>>,
                                <<>>)
                      ELSE File("file", Num(500), Num(1000), MinimalAcl, <<>>)
          [] i = 4 -> File("symlink", Num(1000), Num(1000), <<>>, <<>>)]

(***************************************************************************)
(* ACL entry rewriter.  "for entry in acl" walks the ACL of libacl entry   *)
(* by entry, and "entry.qualifier = new" (acl_set_qualifier) moves the     *)
(* entry to its sorted place in that same ACL at once; the walk goes on    *)
(* from where the entry now stands.                                        *)
(***************************************************************************)
\* the tag values libacl orders the entries by
tag_order(tag) ==
    CASE tag = "ACL_USER_OBJ" -> 1
      [] tag = "ACL_USER" -> 2
      [] tag = "ACL_GROUP_OBJ" -> 4
      [] tag = "ACL_GROUP" -> 8
      [] tag = "ACL_MASK" -> 16
      [] tag = "ACL_OTHER" -> 32

\* entry a sorts after entry b: by tag, then by qualifier
entry_after(a, b) ==
    \/ tag_order(a.tag_type) > tag_order(b.tag_type)
    \/ (a.tag_type = b.tag_type /\ Lt(b.qualifier, a.qualifier))

\* entry.qualifier = new: the entry is taken out and put back before the
\* first entry that sorts after it; at is where it stands afterwards.  An
\* entry given the qualifier 2^32 - 1 (ACL_UNDEFINED_ID) is not moved.
set_qualifier(acl, i, new) ==
    LET moved == [acl[i] EXCEPT !.qualifier = new]
        others == SubSeq(acl, 1, i - 1) \o SubSeq(acl, i + 1, Len(acl))
        later == {k \in 1..Len(others) : entry_after(others[k], moved)}
        at == IF later = {} THEN Len(others) + 1
              ELSE CHOOSE k \in later : \A m \in later : k <= m
    IN  IF new = UINT_MINUS_ONE
        THEN [acl |-> [acl EXCEPT ![i] = moved], at |-> i]
        ELSE [acl |-> SubSeq(others, 1, at - 1) \o <<moved>>
                      \o SubSeq(others, at, Len(others)),
              at |-> at]

RECURSIVE shift_acl_from(_, _, _, _, _)
shift_acl_from(self, acl, prefix, i, modified) ==
    IF i > Len(acl)
    THEN [raised |-> FALSE, acl |-> acl, modified |-> modified]
    ELSE LET entry == acl[i]
         IN  CASE entry.tag_type = "ACL_USER" ->
                    LET r == new_uid(self, entry.qualifier)
                        set == set_qualifier(acl, i, r.value)
                    IN  IF r.raised
                        THEN [raised |-> TRUE, acl |-> acl, modified |-> modified]
                        ELSE IF r.value # MINUS_ONE
                        THEN shift_acl_from(
                                 self, set.acl, prefix, set.at + 1,
                                 Append(modified,
                                        <<prefix, "u", entry.qualifier,
                                          entry.permset, r.value>>))
                        ELSE shift_acl_from(self, acl, prefix, i + 1, modified)
               [] entry.tag_type = "ACL_GROUP" ->
                    LET r == new_gid(self, entry.qualifier)
                        set == set_qualifier(acl, i, r.value)
                    IN  IF r.raised
                        THEN [raised |-> TRUE, acl |-> acl, modified |-> modified]
                        ELSE IF r.value # MINUS_ONE
                        THEN shift_acl_from(
                                 self, set.acl, prefix, set.at + 1,
                                 Append(modified,
                                        <<prefix, "g", entry.qualifier,
                                          entry.permset, r.value>>))
                        ELSE shift_acl_from(self, acl, prefix, i + 1, modified)
               [] OTHER -> shift_acl_from(self, acl, prefix, i + 1, modified)

shift_acl(self, acl, is_default) ==
    shift_acl_from(self, acl, IF is_default THEN "d:" ELSE "", 1, <<>>)

(***************************************************************************)
(* Entry shifter.  One call of Shifter.shift is a frame threaded through   *)
(* the statements of the method in order; a frame that has returned or     *)
(* raised passes through the later stages untouched.  Every filesystem     *)
(* call the method issues is appended to the frame's calls.  Printing is   *)
(* not modelled (options.quiet only selects what is printed).              *)
(***************************************************************************)
Call(op, path) == [op |-> op, path |-> path]

AclOps == {"acl_get", "acl_get_default", "acl_set", "acl_set_default"}

CommitOps == {"chown", "acl_set", "acl_set_default"}

ShifterStats == [shifted_paths |-> 0, shifted_uids |-> 0, shifted_gids |-> 0,
                 shifted_acls |-> 0, shifted_default_acls |-> 0, skipped |-> 0]

NoFailure == [path |-> <<>>, cause |-> ""]

Frame(self, path, opts, st, disk) ==
    [self |-> self, path |-> path, options |-> opts, stats |-> st,
     fs |-> disk, calls |-> <<>>, state |-> "running", ret |-> FALSE,
     error |-> "",
     is_dir |-> FALSE, uid |-> MINUS_ONE, gid |-> MINUS_ONE,
     new_uid |-> MINUS_ONE, new_gid |-> MINUS_ONE,
     new_acl |-> FALSE, new_default_acl |-> FALSE,
     acl |-> <<>>, default_acl |-> <<>>,
     modified_acl_entries |-> <<>>, modified_default_acl_entries |-> <<>>]

\* except: raise RuntimeError(f"Failed to shift UID/GID for: {path}"), with
\* the exception that was caught
Raise(f, error) == [f EXCEPT !.state = "raised", !.error = error]

\* os.chown(path, uid, gid, follow_symlinks=False): -1 leaves an id as it
\* is, and so does 2^32 - 1, which the kernel reads as -1
chown(f) ==
    IF f.new_uid # MINUS_ONE \/ f.new_gid # MINUS_ONE
    THEN [f EXCEPT !.calls = Append(@, Call("chown", f.path)),
                   !.fs[Inode(f.path)].uid =
                       IF f.new_uid \in {MINUS_ONE, UINT_MINUS_ONE} THEN @
                       ELSE f.new_uid,
                   !.fs[Inode(f.path)].gid =
                       IF f.new_gid \in {MINUS_ONE, UINT_MINUS_ONE} THEN @
                       ELSE f.new_gid]
    ELSE f

\* is_dir = path.is_dir(follow_symlinks=False), then the exclusion check
entry_stage(f) ==
    LET g == [f EXCEPT !.calls = Append(@, Call("is_dir", f.path)),
                       !.is_dir = (f.fs[Inode(f.path)].kind = "dir")]
    IN  IF path_excluded(f.self, f.path)
        THEN [g EXCEPT !.stats.skipped = @ + 1,
                       !.state = "returned", !.ret = FALSE]
        ELSE g

\* owner remap that changes the owner as soon as it is computed
owner_stage_eager(f) ==
    IF f.state # "running" THEN f
    ELSE
    LET ino == Inode(f.path)
        g == [f EXCEPT !.calls = Append(@, Call("stat", f.path)),
                       !.uid = f.fs[ino].uid, !.gid = f.fs[ino].gid]
        ru == new_uid(f.self, g.uid)
        rg == new_gid(f.self, g.gid)
    IN  IF ~ f.options.shift_owner THEN g
        ELSE IF ru.raised \/ rg.raised THEN Raise(g, "ValueError")
        ELSE IF f.options.dry_run
        THEN [g EXCEPT !.new_uid = ru.value, !.new_gid = rg.value]
        ELSE chown([g EXCEPT !.new_uid = ru.value, !.new_gid = rg.value])

\* stat = os.stat(path, follow_symlinks=False); new_uid / new_gid
owner_stage(f) ==
    IF f.state # "running" THEN f
    ELSE
    LET ino == Inode(f.path)
        g == [f EXCEPT !.calls = Append(@, Call("stat", f.path)),
                       !.uid = f.fs[ino].uid, !.gid = f.fs[ino].gid]
        ru == new_uid(f.self, g.uid)
        rg == new_gid(f.self, g.gid)
    IN  IF ~ f.options.shift_owner THEN g
        ELSE IF ru.raised \/ rg.raised THEN Raise(g, "ValueError")
        ELSE [g EXCEPT !.new_uid = ru.value, !.new_gid = rg.value]

\* default ACL of a directory: default_acl = posix1e.ACL(filedef=path)
default_acl_stage(f) ==
    IF f.state # "running" \/ ~ f.is_dir THEN f
    ELSE
    LET g == [f EXCEPT !.calls = Append(@, Call("acl_get_default", f.path))]
        r == shift_acl(f.self, f.fs[Followed(f.fs, f.path)].default_acl, TRUE)
    IN  IF r.raised THEN Raise(g, "ValueError")
        ELSE [g EXCEPT !.default_acl = r.acl,
                       !.modified_default_acl_entries = r.modified,
                       !.new_default_acl = (Len(r.modified) > 0)]

\* the access ACL loaded and rewritten, given that ACL work applies
access_acl_stage(f) ==
    LET g == [f EXCEPT !.calls = Append(@, Call("acl_get", f.path))]
        r == shift_acl(f.self, f.fs[Followed(f.fs, f.path)].acl, FALSE)
    IN  IF r.raised THEN Raise(g, "ValueError")
        ELSE default_acl_stage(
                 [g EXCEPT !.acl = r.acl,
                           !.modified_acl_entries = r.modified,
                           !.new_acl = (Len(r.modified) > 0)])

\* ACL work without the symlink test, directory-ness through the link
acl_stage_follow(f) ==
    IF f.state # "running" \/ ~ f.options.shift_acl THEN f
    ELSE access_acl_stage(
             [f EXCEPT !.is_dir = (f.fs[Followed(f.fs, f.path)].kind = "dir")])

\* if options.shift_acl and not path.is_symlink(): ...
acl_stage(f) ==
    IF f.state # "running" \/ ~ f.options.shift_acl THEN f
    ELSE
    LET g == [f EXCEPT !.calls = Append(@, Call("is_symlink", f.path))]
    IN  IF f.fs[Inode(f.path)].kind = "symlink" THEN g
        ELSE access_acl_stage(g)

\* the no-op skip, else the statistics counters
count_stage(f) ==
    IF f.state # "running" THEN f
    ELSE IF f.new_uid = MINUS_ONE /\ f.new_gid = MINUS_ONE
            /\ ~ f.new_acl /\ ~ f.new_default_acl
    THEN [f EXCEPT !.stats.skipped = @ + 1,
                   !.state = "returned", !.ret = FALSE]
    ELSE [f EXCEPT
            !.stats.shifted_paths = @ + 1,
            !.stats.shifted_uids = IF f.new_uid # MINUS_ONE THEN @ + 1 ELSE @,
            !.stats.shifted_gids = IF f.new_gid # MINUS_ONE THEN @ + 1 ELSE @,
            !.stats.shifted_acls =
                IF f.new_acl THEN @ + Len(f.modified_acl_entries) ELSE @,
            !.stats.shifted_default_acls =
                IF f.new_default_acl
                THEN @ + Len(f.modified_default_acl_entries) ELSE @]

\* setxattr refuses an ACL with a named entry whose qualifier is 2^32 - 1
has_undefined_id(acl) ==
    \E i \in 1..Len(acl) :
        /\ acl[i].tag_type \in {"ACL_USER", "ACL_GROUP"}
        /\ acl[i].qualifier = UINT_MINUS_ONE

\* acl.applyto(path): OSError(EINVAL) for an ACL the kernel refuses
apply_acl(f) ==
    IF f.state = "raised" \/ ~ f.new_acl THEN f
    ELSE LET g == [f EXCEPT !.calls = Append(@, Call("acl_set", f.path))]
         IN  IF has_undefined_id(f.acl) THEN Raise(g, "OSError")
             ELSE [g EXCEPT !.fs[Followed(f.fs, f.path)].acl = f.acl]

\* default_acl.applyto(path, posix1e.ACL_TYPE_DEFAULT)
apply_default_acl(f) ==
    IF f.state = "raised" \/ ~ f.new_default_acl THEN f
    ELSE LET g == [f EXCEPT !.calls = Append(@, Call("acl_set_default", f.path))]
         IN  IF has_undefined_id(f.default_acl) THEN Raise(g, "OSError")
             ELSE [g EXCEPT !.fs[Followed(f.fs, f.path)].default_acl =
                                f.default_acl]

\* a commit whose ACL writes are outside the dry-run test
commit_stage_acl_always(f) ==
    IF f.state # "running" THEN f
    ELSE LET g == apply_default_acl(apply_acl(
                      IF f.options.dry_run THEN f ELSE chown(f)))
         IN  IF g.state = "raised" THEN g
             ELSE [g EXCEPT !.state = "returned", !.ret = TRUE]

\* if not options.dry_run: chown, applyto, applyto; return True
commit_stage(f) ==
    IF f.state # "running" THEN f
    ELSE LET g == IF f.options.dry_run THEN f
                  ELSE apply_default_acl(apply_acl(chown(f)))
         IN  IF g.state = "raised" THEN g
             ELSE [g EXCEPT !.state = "returned", !.ret = TRUE]

shift(self, path, opts, st, disk) ==
    commit_stage(count_stage(acl_stage(owner_stage(entry_stage(
        Frame(self, path, opts, st, disk))))))

(***************************************************************************)
(* Tree walker: Shifter.run over os.walk(path, followlinks=False).         *)
(***************************************************************************)
MaxRuns == 2

\* entry.is_dir() of os.walk follows symlinks: l is listed among the dirs
walk_is_dir(disk, path) == disk[Followed(disk, path)].kind = "dir"

RECURSIVE select_names(_, _, _, _)
select_names(disk, top, names, want_dirs) ==
    IF names = <<>> THEN <<>>
    ELSE LET rest == select_names(disk, top, Tail(names), want_dirs)
         IN  IF walk_is_dir(disk, Append(top, Head(names))) = want_dirs
             THEN <<Head(names)>> \o rest
             ELSE rest

\* the directories os.walk descends into: not the symlinks among dirs
RECURSIVE descend(_, _, _)
descend(disk, top, dirs) ==
    IF dirs = <<>> THEN <<>>
    ELSE LET rest == descend(disk, top, Tail(dirs))
             new_path == Append(top, Head(dirs))
         IN  IF disk[Inode(new_path)].kind # "symlink"
             THEN <<new_path>> \o rest
             ELSE rest

Reversed(s) == [i \in 1..Len(s) |-> s[Len(s) + 1 - i]]

Joined(top, names) == [i \in 1..Len(names) |-> Append(top, names[i])]

\* nothing yielded yet
NoYield == [top |-> <<>>, dirs |-> <<>>]

\* the generator resumed after a yield: the subdirectories of the directory
\* it yielded, the symlinks apart, go onto its stack now, not before
resumed_stack == stack \o Reversed(descend(fs, yielded.top, yielded.dirs))

\* stats = ShifterStats(); the generator os.walk(path) is created
StartRun(dry_run) ==
    /\ pc \in {"idle", "done"}
    /\ runs < MaxRuns
    /\ options' = [shift_owner |-> base_options.shift_owner,
                   shift_acl |-> base_options.shift_acl,
                   dry_run |-> dry_run]
    /\ stats' = ShifterStats
    /\ stack' = << <<root_name>> >>
    /\ yielded' = NoYield
    /\ queue' = <<>>
    /\ syscalls' = <<>>
    /\ pc' = "walk"
    /\ runs' = runs + 1
    /\ prev' = IF pc = "done"
               THEN [valid |-> TRUE, options |-> options, shifter |-> shifter,
                     stats |-> stats, fs_run |-> fs_run]
               ELSE prev
    /\ fs_run' = fs
    /\ failure' = NoFailure
    /\ UNCHANGED <<shifter, root_name, hardlink, base_options, fs, fs_orig,
                   rin, rout>>

\* one iteration of "for root, dirs, files in os.walk(path)": the generator
\* is resumed, lists the next directory and yields it; if "root" == path:
\* continue; else its dirs and then its files are queued for shift, in the
\* order the listing has them.
WalkNext ==
    /\ pc = "walk"
    /\ queue = <<>>
    /\ resumed_stack # <<>>
    /\ \E names \in scandir(resumed_stack[Len(resumed_stack)]) :
       LET top == resumed_stack[Len(resumed_stack)]
           dirs == select_names(fs, top, names, TRUE)
           files == select_names(fs, top, names, FALSE)
       IN  /\ queue' = IF root_name = "root" THEN <<>>
                       ELSE Joined(top, dirs) \o Joined(top, files)
           /\ stack' = SubSeq(resumed_stack, 1, Len(resumed_stack) - 1)
           /\ yielded' = [top |-> top, dirs |-> dirs]
    /\ UNCHANGED <<shifter, root_name, hardlink, base_options, fs, pc,
                   options, stats, syscalls, failure, runs, prev, fs_run,
                   fs_orig, rin, rout>>

\* self.shift(Path(root) / d, options, stats) on the next queued path; the
\* counters shift has added to stats by the time it raises stay added
ShiftEntry ==
    /\ pc = "walk"
    /\ queue # <<>>
    /\ LET f == shift(shifter, Head(queue), options, stats, fs)
       IN  /\ syscalls' = syscalls \o <<Call("shift", Head(queue))>> \o f.calls
           /\ fs' = f.fs
           /\ stats' = f.stats
           /\ IF f.state = "raised"
              THEN /\ pc' = "failed"
                   /\ failure' = [path |-> Head(queue), cause |-> f.error]
                   /\ UNCHANGED queue
              ELSE /\ queue' = Tail(queue)
                   /\ UNCHANGED <<pc, failure>>
    /\ UNCHANGED <<shifter, root_name, hardlink, base_options, options, stack,
                   yielded, runs, prev, fs_run, fs_orig, rin, rout>>

\* the generator is resumed and has nothing left to list; return stats
Return ==
    /\ pc = "walk"
    /\ queue = <<>>
    /\ resumed_stack = <<>>
    /\ pc' = "done"
    /\ yielded' = NoYield
    /\ UNCHANGED <<shifter, root_name, hardlink, base_options, fs, options,
                   stats, stack, queue, syscalls, failure, runs, prev,
                   fs_run, fs_orig, rin, rout>>

\* a new Shifter with the offsets negated and the same exclusions, made
\* after a run has returned; no run of the new instance has started yet
Negate ==
    /\ pc = "done"
    /\ runs < MaxRuns
    /\ shifter' = [shifter EXCEPT !.uid_offset = Negated(@),
                                  !.gid_offset = Negated(@)]
    /\ prev' = [valid |-> TRUE, options |-> options, shifter |-> shifter,
                stats |-> stats, fs_run |-> fs_run]
    /\ pc' = "idle"
    /\ stats' = ShifterStats
    /\ syscalls' = <<>>
    /\ fs_run' = fs
    /\ UNCHANGED <<root_name, hardlink, base_options, fs, options, stack,
                   yielded, queue, failure, runs, fs_orig, rin, rout>>

(***************************************************************************)
(* Inputs.                                                                 *)
(***************************************************************************)
Offsets == {<<Num(100000), Num(0)>>, <<Num(-100000), Num(0)>>,
            <<Num(100000), Num(100000)>>}

UidRanges == {<<>>,
              <<range(Num(0), Num(1000))>>,
              <<range(Num(0), Num(1000)), range(Num(101000), Num(101001))>>}

GidRanges == {<<>>, <<range(Num(1000), Num(1001))>>}

PathPatterns == {<<>>,
                 << <<"*", "/", "x">>, <<"*", "/", "d", "/", "*">> >>,
                 << <<"?", "/", "[", "!", "a", "-", "e", "!", "l", "]">> >>}

RootNames == {"t", "root"}

Shifter(uid_offset, gid_offset, exclude_uid_ranges, exclude_gid_ranges, exclude_paths) ==
    [uid_offset |-> uid_offset, gid_offset |-> gid_offset,
     exclude_uid_ranges |-> exclude_uid_ranges,
     exclude_gid_ranges |-> exclude_gid_ranges,
     exclude_paths |-> exclude_paths]

Shifters(offsets, uranges, granges, patterns) ==
    {Shifter(o[1], o[2], u, g, p) :
        o \in offsets, u \in uranges, g \in granges, p \in patterns}

NoInput == [which |-> "none", id |-> Num(0), self |-> Shifter(Num(0), Num(0), <<>>, <<>>, <<>>)]

NoOutput == [done |-> FALSE, result |-> Returned(MINUS_ONE)]

Start(shifters, roots, links, profiles, owner, acl) ==
    /\ shifter \in shifters
    /\ root_name \in roots
    /\ hardlink \in links
    /\ base_options \in [shift_owner : owner, shift_acl : acl]
    /\ \E p \in profiles : fs = InitialFs(p) /\ fs_run = fs /\ fs_orig = fs
    /\ pc = "idle"
    /\ options = [shift_owner |-> base_options.shift_owner,
                  shift_acl |-> base_options.shift_acl, dry_run |-> FALSE]
    /\ stats = ShifterStats
    /\ stack = <<>>
    /\ yielded = NoYield
    /\ queue = <<>>
    /\ syscalls = <<>>
    /\ failure = NoFailure
    /\ runs = 0
    /\ prev = [valid |-> FALSE, options |-> options, shifter |-> shifter,
               stats |-> ShifterStats, fs_run |-> fs]

Init ==
    /\ Start(Shifters(Offsets, UidRanges, GidRanges, PathPatterns), RootNames,
             BOOLEAN, Profiles, BOOLEAN, BOOLEAN)
    /\ rin = NoInput
    /\ rout = NoOutput

Next ==
    \/ \E dry_run \in BOOLEAN : StartRun(dry_run)
    \/ WalkNext
    \/ ShiftEntry
    \/ Return
    \/ Negate

Spec == Init /\ [][Next]_vars

(***************************************************************************)
(* The identifier remapper on its own: the inputs are drawn in the         *)
(* initial state and one step applies new_uid or new_gid to them.          *)
(***************************************************************************)
RemapIds == {Num(0), Num(500), Num(1000), Num(101000),
             Plus(MAX_ID, Num(-967296)),    \* 4294000000
             BigId, UINT_MINUS_ONE}

RemapOffsets == {Num(0), Num(1), Num(-1), Num(100000), Num(-100000)}

RemapRanges == UidRanges \cup GidRanges \cup {<<range(BigId, MAX_ID)>>}

RemapInputs ==
    {[which |-> w, id |-> i, self |-> Shifter(uo, go, ur, gr, <<>>)] :
        w \in {"uid", "gid"}, i \in RemapIds,
        uo \in RemapOffsets, go \in RemapOffsets,
        ur \in RemapRanges, gr \in {<<>>, <<range(Num(0), Num(1001))>>}}

InitRemap ==
    /\ Start(Shifters({<<Num(100000), Num(0)>>}, {<<>>}, {<<>>}, {<<>>}),
             {"t"}, {FALSE}, {"plain"}, {TRUE}, {TRUE})
    /\ rin \in RemapInputs
    /\ rout = NoOutput

RemapUid ==
    /\ rin.which = "uid"
    /\ ~ rout.done
    /\ rout' = [done |-> TRUE, result |-> new_uid(rin.self, rin.id)]
    /\ UNCHANGED <<shifter, root_name, hardlink, base_options, fs, pc,
                   options, stats, stack, yielded, queue, syscalls, failure,
                   runs, prev, fs_run, fs_orig, rin>>

RemapGid ==
    /\ rin.which = "gid"
    /\ ~ rout.done
    /\ rout' = [done |-> TRUE, result |-> new_gid(rin.self, rin.id)]
    /\ UNCHANGED <<shifter, root_name, hardlink, base_options, fs, pc,
                   options, stats, stack, yielded, queue, syscalls, failure,
                   runs, prev, fs_run, fs_orig, rin>>

NextRemap == RemapUid \/ RemapGid

SpecRemap == InitRemap /\ [][NextRemap]_vars

(***************************************************************************)
(* Properties.                                                             *)
(***************************************************************************)
\* the offset and the exclusion ranges a remap input is subject to
RinOffset == IF rin.which = "uid" THEN rin.self.uid_offset
             ELSE rin.self.gid_offset

RinRanges == IF rin.which = "uid" THEN rin.self.exclude_uid_ranges
             ELSE rin.self.exclude_gid_ranges

RinExcluded ==
    \E i \in 1..Len(RinRanges) :
        /\ ~ Lt(rin.id, RinRanges[i].start)
        /\ Lt(rin.id, RinRanges[i].stop)

RinSum == Plus(rin.id, RinOffset)

RinSumValid == ~ Lt(RinSum, Num(0)) /\ Lt(RinSum, MAX_ID)

\* C1: new_uid / new_gid return -1 for an identifier in any exclusion range
\* whatever the offset (also when id + offset is out of range); otherwise
\* they return exactly id + offset when 0 <= id + offset < 2^32 and raise
\* when it is not, never clamping or wrapping.
C1_Remap ==
    rout.done =>
        IF RinExcluded
        THEN rout.result = [raised |-> FALSE, value |-> Num(-1)]
        ELSE IF RinSumValid
        THEN rout.result = [raised |-> FALSE, value |-> RinSum]
        ELSE rout.result.raised

\* an excluded identifier whose sum with the offset is out of range
C1_Witness ==
    /\ rout.done
    /\ RinExcluded
    /\ ~ RinSumValid
    /\ rout.result.value = Num(-1)
    /\ ~ rout.result.raised

\* whether the path string matches at least one exclusion pattern
Matches(path) ==
    \E i \in 1..Len(shifter.exclude_paths) :
        fnmatch(str(path), shifter.exclude_paths[i])

\* how often a call was issued in a sequence of calls
RECURSIVE CountCalls(_, _, _)
CountCalls(calls, op, path) ==
    IF calls = <<>> THEN 0
    ELSE (IF Head(calls) = Call(op, path) THEN 1 ELSE 0)
         + CountCalls(Tail(calls), op, path)

EntryPaths == {<<root_name>> \o e : e \in Entries}

\* C2: a dry-run pass followed by a real pass of the same engine with the
\* same shift_owner / shift_acl returns equal statistics, field for field.
C2_DryRealSameStats ==
    (/\ pc = "done"
     /\ prev.valid
     /\ prev.options.dry_run
     /\ ~ options.dry_run
     /\ prev.shifter = shifter
     /\ prev.options.shift_owner = options.shift_owner
     /\ prev.options.shift_acl = options.shift_acl)
    => stats = prev.stats

\* C3: a dry-run pass commits nothing: while it runs and after it ends,
\* normally or by failure, every inode's owner, group, access ACL and
\* default ACL are as when the pass started, and no commit call was issued.
C3_DryRunCommitsNothing ==
    (pc \in {"walk", "done", "failed"} /\ options.dry_run) =>
        /\ fs = fs_run
        /\ \A i \in 1..Len(syscalls) : syscalls[i].op \notin CommitOps

\* a finished dry run that computed owner and ACL changes
C3_Witness ==
    /\ pc = "done"
    /\ options.dry_run
    /\ stats.shifted_uids > 0
    /\ stats.shifted_acls > 0
    /\ stats.shifted_default_acls > 0

\* C4: for an entry whose path matches an exclusion pattern no filesystem
\* metadata is read (no is_dir, no stat, no ACL load), nothing is
\* committed, and the entry is counted as skipped.
C4_NoMetadataRead ==
    /\ \A i \in 1..Len(syscalls) :
           Matches(syscalls[i].path) => syscalls[i].op = "shift"
    /\ \A p \in EntryPaths :
           (Matches(p) /\ CountCalls(syscalls, "shift", p) > 0)
               => stats.skipped > 0

\* C5: when a remap raises during a real run (the computed identifier is
\* outside [0, 2^32)), the run fails naming the entry's path, nothing is
\* committed for that entry (the filesystem is as before its shift began)
\* and no later entry is visited: the run is over.
C5_AbortOnFirstFailure ==
    [][/\ pc # "failed"
       /\ (/\ pc = "walk"
           /\ pc' = "failed"
           /\ failure'.cause = "ValueError"
           /\ ~ options.dry_run) =>
              /\ fs' = fs
              /\ failure'.path = Head(queue)
              /\ stats' = stats
              /\ \A i \in (Len(syscalls) + 1)..Len(syscalls') :
                     syscalls'[i].op \notin CommitOps]_vars

\* a real run failed on f after committing d and l; the walk had yielded
\* the root only, d/g below the yielded directory d was never reached
C5_Witness ==
    /\ pc = "failed"
    /\ ~ options.dry_run
    /\ failure = [path |-> <<root_name, "f">>, cause |-> "ValueError"]
    /\ CountCalls(syscalls, "chown", <<root_name, "d">>) = 1
    /\ CountCalls(syscalls, "chown", <<root_name, "l">>) = 1
    /\ CountCalls(syscalls, "chown", <<root_name, "f">>) = 0
    /\ CountCalls(syscalls, "shift", <<root_name, "d", "g">>) = 0
    /\ yielded.top = <<root_name>>
    /\ queue = << <<root_name, "f">> >>
    /\ stats.shifted_paths = 2
    /\ fs # fs_run

\* C6: shifted_uids (shifted_gids) counts only the entries whose owner
\* (group) the shift changed; with offsets 100000:0 a file owned 1000:1000
\* becomes 101000:1000 and shifted_gids stays 0.
C6_CountOnlyChanged ==
    (pc \in {"walk", "done"} /\ ~ options.dry_run) =>
        /\ stats.shifted_uids <=
               Cardinality({p \in EntryPaths :
                                fs[Inode(p)].uid # fs_run[Inode(p)].uid})
        /\ stats.shifted_gids <=
               Cardinality({p \in EntryPaths :
                                fs[Inode(p)].gid # fs_run[Inode(p)].gid})

\* C7: a run that returns has invoked shift exactly once on every
\* directory, file and symlink below the root, never on the root, never
\* below the symlink l, and shifted_paths + skipped is the entry count.
C7_EveryEntryOnce ==
    pc = "done" =>
        /\ \A p \in EntryPaths : CountCalls(syscalls, "shift", p) = 1
        /\ \A i \in 1..Len(syscalls) : syscalls[i].path \in EntryPaths
        /\ stats.shifted_paths + stats.skipped = Cardinality(Entries)

\* C8: with no exclusion ranges and no patterns, a real run with offsets
\* (Ou, Og) followed by a real run with (-Ou, -Og), both returning (so no
\* identifier left [0, 2^32) in either), leaves every inode's owner, group,
\* access ACL and default ACL as they were before the first of the two runs.
C8_RoundTrip ==
    (/\ pc = "done"
     /\ prev.valid
     /\ ~ prev.options.dry_run
     /\ ~ options.dry_run
     /\ shifter.uid_offset = Negated(prev.shifter.uid_offset)
     /\ shifter.gid_offset = Negated(prev.shifter.gid_offset)
     /\ shifter.exclude_uid_ranges = <<>>
     /\ shifter.exclude_gid_ranges = <<>>
     /\ shifter.exclude_paths = <<>>)
    => fs = prev.fs_run

\* the owner an inspected entry ends with: unchanged if excluded
Expected(id, offset, ranges) ==
    IF \E i \in 1..Len(ranges) :
           ~ Lt(id, ranges[i].start) /\ Lt(id, ranges[i].stop)
    THEN id
    ELSE Plus(id, offset)

\* C9: no ACL is loaded, rewritten or committed for an entry that is itself
\* a symlink, while the link's own owner and group are remapped and
\* committed by a real shift with shift_owner; a default ACL is loaded or
\* committed only for an entry that is a directory.
C9_AclByKind ==
    /\ \A i \in 1..Len(syscalls) :
          /\ fs[Inode(syscalls[i].path)].kind = "symlink"
                 => syscalls[i].op \notin AclOps
          /\ syscalls[i].op \in {"acl_get_default", "acl_set_default"}
                 => fs[Inode(syscalls[i].path)].kind = "dir"
    /\ (/\ CountCalls(syscalls, "stat", <<root_name, "l">>) = 1
        /\ failure.path # <<root_name, "l">>
        /\ options.shift_owner
        /\ ~ options.dry_run)
       => /\ fs[4].uid = Expected(fs_run[4].uid, shifter.uid_offset,
                                  shifter.exclude_uid_ranges)
          /\ fs[4].gid = Expected(fs_run[4].gid, shifter.gid_offset,
                                  shifter.exclude_gid_ranges)
          /\ fs[4].acl = fs_run[4].acl

\* a real run with owner and ACL shifting went over the symlink l and the
\* directory d: the link's owner changed, d's default ACL was committed
C9_Witness ==
    /\ pc = "done"
    /\ ~ options.dry_run
    /\ options.shift_owner
    /\ options.shift_acl
    /\ fs[4].uid # fs_run[4].uid
    /\ CountCalls(syscalls, "is_symlink", <<root_name, "l">>) = 1
    /\ CountCalls(syscalls, "acl_set_default", <<root_name, "d">>) = 1
    /\ CountCalls(syscalls, "acl_set", <<root_name, "f">>) = 1

\* C10: after a real run with shift_owner and no exclusions that returns,
\* every object below the root has owner = original + uid_offset and group
\* = original + gid_offset, hard-linked objects included.  (Stated for the
\* runs that walk the tree; the path "root" is the case of C7.)
C10_ShiftedOnce ==
    (/\ pc = "done"
     /\ root_name # "root"
     /\ ~ options.dry_run
     /\ options.shift_owner
     /\ shifter.exclude_uid_ranges = <<>>
     /\ shifter.exclude_gid_ranges = <<>>
     /\ shifter.exclude_paths = <<>>)
    => \A o \in Objects :
           /\ fs[o].uid = Plus(fs_run[o].uid, shifter.uid_offset)
           /\ fs[o].gid = Plus(fs_run[o].gid, shifter.gid_offset)

====
